---- MODULE Spec2Model ----
(***************************************************************************)
(* Refresh-token session lifecycle of the chat API: login, rotation with   *)
(* single use and sliding expiration, single-session logout, logout        *)
(* everywhere, and the /logout endpoint with its exception handlers.       *)
(* Storage errors during a call, the removal of a user record and bearer   *)
(* access tokens are covered by specifications of their own.               *)
(* Time is counted in whole days; datetime.now(UTC) is a clock reading     *)
(* that never goes backwards.                                              *)
(***************************************************************************)
EXTENDS Integers, Sequences, FiniteSets, TLC

\* ------------------------------------------------------------------ bounds
MaxUsers == 2
MaxTokens == 3
MaxTime == 2
MaxExpireDays == 2
MaxLifetimeDays == 2
NumWorkers == 2

\* ------------------------------------------------------- values and inputs
\* Python's None for an optional string (cookie, user agent, ip address).
NONE == "<None>"

\* Python truthiness of an optional string: None and "" are falsy.
Truthy(s) == s \notin {NONE, ""}

\* Result of a query's .first() when no row matches.
NoRow == [id |-> 0]

Email(i) == "user" \o ToString(i) \o "@example.com"
Emails == {Email(i) : i \in 1..MaxUsers}
Passwords == {"Password1!"}
WrongPassword == "wrong"
\* Client metadata of a request: <<user agent, ip address>>.
NoClient == <<NONE, NONE>>
Clients == {NoClient, <<"ua1", "ip1">>, <<"ua2", "ip2">>, <<"ua1", "ip2">>}

\* Exception classes of app.core.exceptions; OK stands for a normal return.
OK == "OK"
InvalidCredentialsError == "InvalidCredentialsError"
LogoutNoSessionError == "LogoutNoSessionError"
LogoutOperationError == "LogoutOperationError"
EmailAlreadyRegisteredError == "EmailAlreadyRegisteredError"
\* sqlalchemy.exc.SQLAlchemyError, raised by a repository call that fails.
SQLAlchemyError == "SQLAlchemyError"
\* fastapi.HTTPException, raised by a dependency or a route.
HTTPException == "HTTPException"

\* The repository call of an operation that raises SQLAlchemyError, if any.
NoFault == "none"
LoginFaults == {NoFault, "update_password"}
LogoutFaults == {NoFault, "get_valid_token", "revoke_token"}

\* timedelta(minutes=m) in days; the clock counts days.
MinutesPerDay == 1440
timedelta_minutes(m) == m \div MinutesPerDay

VARIABLES
    settings,   \* the Settings fields the session code reads
    users,      \* rows of table users, in insertion order
    tokens,     \* rows of table refresh_tokens, in insertion order
    clock,      \* what datetime.now(UTC) returns, in days since start
    scope,      \* how far this run is explored: users, tokens, client metadata
    last,       \* the call that was just executed, with its outcome
    rotated,    \* history: values whose rotation returned a new pair
    chain,      \* history: chain[i] = id of the login token tokens[i] descends from
    access_tokens, \* history: the access tokens handed to clients so far
    workers     \* concurrent rotate_refresh_token calls, one per worker

vars == <<settings, scope, users, tokens, clock, last, rotated, chain,
         access_tokens, workers>>

\* ------------------------------------------------------------ pure helpers
Min2(a, b) == IF a <= b THEN a ELSE b

MinOf(S) == CHOOSE x \in S : \A y \in S : x <= y

\* Variant: the value is derived from the number of tokens still valid.
token_urlsafe_live(toks) ==
    "rt" \o ToString(Cardinality({i \in 1..Len(toks) : ~toks[i].revoked}) + 1)

\* secrets.token_urlsafe(64): a value that no earlier call returned.
token_urlsafe(toks) == "rt" \o ToString(Len(toks) + 1)

IssuedValues == {tokens[i].token : i \in 1..Len(tokens)}

hash_password(password) == <<"bcrypt", password>>

verify_password(plain, hashed) == hashed[2] = plain

\* ------------------------------------------------------- UserRepository
get_by_email(us, email) ==
    LET S == {i \in 1..Len(us) : us[i].email = email}
    IN  IF S = {} THEN NoRow ELSE us[MinOf(S)]

get_by_id(us, user_id) ==
    LET S == {i \in 1..Len(us) : us[i].id = user_id}
    IN  IF S = {} THEN NoRow ELSE us[MinOf(S)]

create(us, email, hashed_password) ==
    Append(us, [id |-> Len(us) + 1, email |-> email,
                hashed_password |-> hashed_password])

\* ------------------------------------------------- RefreshTokenRepository
\* Mutant: the update is never issued.
revoke_token_noop(toks, token) == toks

\* Variant: a revoked token is also marked as expired.
revoke_token_expiring(toks, token) ==
    [i \in 1..Len(toks) |->
        IF toks[i].token = token /\ ~toks[i].revoked
        THEN [toks[i] EXCEPT !.revoked = TRUE, !.expires_at = 0]
        ELSE toks[i]]

\* Variant: every session of the owner of the token is ended.
revoke_token_of_owner(toks, token) ==
    [i \in 1..Len(toks) |->
        IF \E j \in 1..Len(toks) : /\ toks[j].token = token /\ ~toks[j].revoked
                                   /\ toks[j].user_id = toks[i].user_id
        THEN [toks[i] EXCEPT !.revoked = TRUE]
        ELSE toks[i]]

\* Variant: the update flips the flag of the row with the value.
revoke_token_toggle(toks, token) ==
    [i \in 1..Len(toks) |->
        IF toks[i].token = token
        THEN [toks[i] EXCEPT !.revoked = ~toks[i].revoked]
        ELSE toks[i]]

revoke_token(toks, token) ==
    [i \in 1..Len(toks) |->
        IF toks[i].token = token /\ ~toks[i].revoked
        THEN [toks[i] EXCEPT !.revoked = TRUE]
        ELSE toks[i]]

\* Mutant: the update flips the flag of every row of the user.
revoke_all_tokens_toggle(toks, user_id) ==
    [i \in 1..Len(toks) |->
        IF toks[i].user_id = user_id
        THEN [toks[i] EXCEPT !.revoked = ~toks[i].revoked]
        ELSE toks[i]]

\* Mutant: only the first matching row is updated.
revoke_all_tokens_first(toks, user_id) ==
    LET S == {i \in 1..Len(toks) : toks[i].user_id = user_id /\ ~toks[i].revoked}
    IN  [i \in 1..Len(toks) |->
            IF S # {} /\ i = MinOf(S)
            THEN [toks[i] EXCEPT !.revoked = TRUE]
            ELSE toks[i]]

\* Variant: the filter on the owner is missing.
revoke_all_tokens_everyone(toks, user_id) ==
    [i \in 1..Len(toks) |-> [toks[i] EXCEPT !.revoked = TRUE]]

revoke_all_tokens(toks, user_id) ==
    [i \in 1..Len(toks) |->
        IF toks[i].user_id = user_id /\ ~toks[i].revoked
        THEN [toks[i] EXCEPT !.revoked = TRUE]
        ELSE toks[i]]

\* created_at is the reading of datetime.now(UTC) taken inside add_token.
add_token(toks, user_id, token, expires_at, created_at, user_agent, ip_address) ==
    Append(toks, [id |-> Len(toks) + 1,
                  user_id |-> user_id,
                  token |-> token,
                  expires_at |-> expires_at,
                  revoked |-> FALSE,
                  created_at |-> created_at,
                  user_agent |-> user_agent,
                  ip_address |-> ip_address])

\* Variant: the query also requires expires_at to lie ahead of the clock.
get_valid_token_unexpired(toks, token) ==
    LET S == {i \in 1..Len(toks) : /\ toks[i].token = token /\ ~toks[i].revoked
                                   /\ toks[i].expires_at >= clock}
    IN  IF S = {} THEN NoRow ELSE toks[MinOf(S)]

get_valid_token(toks, token) ==
    LET S == {i \in 1..Len(toks) : toks[i].token = token /\ ~toks[i].revoked}
    IN  IF S = {} THEN NoRow ELSE toks[MinOf(S)]

\* ------------------------------------------------------------ audit events
\* One entry of the RefreshTokenAudit log written by _log_refresh_token_event.
_log_refresh_token_event(event_type, reason) ==
    [event_type |-> event_type, reason |-> reason]

\* --------------------------------------------------------- service helpers
Raise(exc, msg, events) == [raised |-> exc, msg |-> msg, events |-> events]

Pass(events) == [raised |-> OK, msg |-> "", events |-> events]

\* Variant: a token is refused from the instant of its expiry on.
_validate_refresh_token_strict(token_obj, now) ==
    IF token_obj = NoRow \/ token_obj.revoked \/ token_obj.expires_at <= now
    THEN Raise(InvalidCredentialsError, "Invalid or expired refresh token", << >>)
    ELSE Pass(<< >>)

_validate_refresh_token(token_obj, now) ==
    IF token_obj = NoRow
    THEN Raise(InvalidCredentialsError, "Invalid or expired refresh token",
               <<_log_refresh_token_event("suspicious",
                     "invalid or revoked token used for rotation")>>)
    ELSE IF token_obj.revoked
    THEN Raise(InvalidCredentialsError, "Invalid or expired refresh token",
               <<_log_refresh_token_event("suspicious",
                     "revoked token used for rotation")>>)
    ELSE IF token_obj.expires_at < now
    THEN Raise(InvalidCredentialsError, "Invalid or expired refresh token",
               <<_log_refresh_token_event("suspicious",
                     "expired token used for rotation")>>)
    ELSE Pass(<< >>)

\* Mutant: a metadata mismatch is treated as a failed validation.
_detect_anomalies_blocking(token_obj, user_agent, ip_address) ==
    IF \/ Truthy(user_agent) /\ Truthy(token_obj.user_agent)
          /\ user_agent # token_obj.user_agent
       \/ Truthy(ip_address) /\ Truthy(token_obj.ip_address)
          /\ ip_address # token_obj.ip_address
    THEN Raise(InvalidCredentialsError, "Invalid or expired refresh token",
               <<_log_refresh_token_event("anomaly", "blocked")>>)
    ELSE Pass(<< >>)

\* Variant: only the user agent is compared.
_detect_anomalies_ua_only(token_obj, user_agent, ip_address) ==
    Pass(IF Truthy(user_agent) /\ Truthy(token_obj.user_agent)
            /\ user_agent # token_obj.user_agent
         THEN <<_log_refresh_token_event("anomaly", "user_agent")>>
         ELSE << >>)

_detect_anomalies(token_obj, user_agent, ip_address) ==
    LET ua == IF Truthy(user_agent) /\ Truthy(token_obj.user_agent)
                 /\ user_agent # token_obj.user_agent
              THEN <<_log_refresh_token_event("anomaly", "user_agent")>>
              ELSE << >>
        ip == IF Truthy(ip_address) /\ Truthy(token_obj.ip_address)
                 /\ ip_address # token_obj.ip_address
              THEN <<_log_refresh_token_event("anomaly", "ip_address")>>
              ELSE << >>
    IN  Pass(ua \o ip)

\* Mutant: the sliding window without the lifetime cap.
new_expiry_uncapped(token_obj, now, cfg) == now + cfg.REFRESH_TOKEN_EXPIRE_DAYS

\* Variant: the window is added to the expiry of the token being rotated.
new_expiry_from_old_expiry(token_obj, now, cfg) ==
    token_obj.expires_at + cfg.REFRESH_TOKEN_EXPIRE_DAYS

\* Variant: the day of creation counts as the first day of the lifetime.
new_expiry_cap_exclusive(token_obj, now, cfg) ==
    LET max_expiry == token_obj.created_at + cfg.REFRESH_TOKEN_MAX_LIFETIME_DAYS - 1
        requested_expiry == now + cfg.REFRESH_TOKEN_EXPIRE_DAYS
    IN  Min2(requested_expiry, max_expiry)

\* Sliding expiration of rotate_refresh_token: the window from now, capped at
\* max lifetime counted from the created_at of the token being rotated.
new_expiry(token_obj, now, cfg) ==
    LET max_expiry == token_obj.created_at + cfg.REFRESH_TOKEN_MAX_LIFETIME_DAYS
        requested_expiry == now + cfg.REFRESH_TOKEN_EXPIRE_DAYS
    IN  Min2(requested_expiry, max_expiry)

\* A signed JWT: its claims; exp is set from the clock when it is encoded.
create_access_token(data, now, cfg) ==
    [sub |-> data.sub, uid |-> data.uid,
     exp |-> now + timedelta_minutes(cfg.JWT_EXPIRE_MINUTES),
     signed |-> TRUE]

issue_access_token(user, now, cfg) ==
    create_access_token([sub |-> user.email, uid |-> user.id], now, cfg)

NoToken == [sub |-> NONE, uid |-> 0, exp |-> 0, signed |-> FALSE]

\* The current hashing scheme never asks for a rehash of its own hashes.
needs_rehash(hashed) == hashed[1] # "bcrypt"

update_password(us, user_id, new_hash) ==
    [i \in 1..Len(us) |->
        IF us[i].id = user_id THEN [us[i] EXCEPT !.hashed_password = new_hash]
        ELSE us[i]]

\* Variant: a storage error of update_password leaves the helper.
_upgrade_password_hash_if_needed_raising(us, user, password, fault) ==
    IF ~needs_rehash(user.hashed_password)
    THEN [raised |-> OK, users |-> us]
    ELSE IF fault = "update_password"
    THEN [raised |-> SQLAlchemyError, users |-> us]
    ELSE [raised |-> OK,
          users |-> update_password(us, user.id, hash_password(password))]

\* try: rehash and persist; except (SQLAlchemyError, ValueError): go on.
_upgrade_password_hash_if_needed(us, user, password, fault) ==
    IF ~needs_rehash(user.hashed_password)
    THEN [raised |-> OK, users |-> us]
    ELSE IF fault = "update_password"
    THEN [raised |-> OK, users |-> us]
    ELSE [raised |-> OK,
          users |-> update_password(us, user.id, hash_password(password))]

\* ------------------------------------------------------- service operations
\* Each operation is a function of the store and its arguments; it yields the
\* exception raised (or OK), the store it leaves, and what it returns.

register_user(us, email, password) ==
    IF get_by_email(us, email) # NoRow
    THEN [raised |-> EmailAlreadyRegisteredError,
          msg |-> "Email is already registered.", users |-> us]
    ELSE [raised |-> OK, msg |-> "",
          users |-> create(us, email, hash_password(password))]

\* What a failed login hands back: the exception, no tokens, the store as it was.
LoginFailed(exc, msg, us, toks) ==
    [raised |-> exc, msg |-> msg, users |-> us, tokens |-> toks,
     access_token |-> NoToken, refresh_token |-> NONE, events |-> << >>]

\* Variant: an unknown email is reported as such.
authenticate_user_telling(us, toks, email, password, now, user_agent, ip_address, cfg, fault) ==
    LET db_user == get_by_email(us, email)
    IN  IF db_user = NoRow
        THEN LoginFailed(InvalidCredentialsError, "Unknown email.", us, toks)
        ELSE IF ~verify_password(password, db_user.hashed_password)
        THEN LoginFailed(InvalidCredentialsError, "Email or password incorrect.",
                         us, toks)
        ELSE
        LET upgrade == _upgrade_password_hash_if_needed(us, db_user, password, fault)
            expires_at == now + cfg.REFRESH_TOKEN_EXPIRE_DAYS
            refresh_token == token_urlsafe(toks)
        IN  [raised |-> OK, msg |-> "",
             users |-> upgrade.users,
             tokens |-> add_token(toks, db_user.id, refresh_token, expires_at,
                                  now, user_agent, ip_address),
             access_token |-> issue_access_token(db_user, now, cfg),
             refresh_token |-> refresh_token,
             events |-> <<_log_refresh_token_event("create", "")>>]

\* Variant: a new login ends the other sessions of the user.
_build_successful_auth_response_exclusive(toks, user, now, user_agent, ip_address, cfg) ==
    LET expires_at == now + cfg.REFRESH_TOKEN_EXPIRE_DAYS
        refresh_token == token_urlsafe(toks)
    IN  [tokens |-> add_token(revoke_all_tokens(toks, user.id), user.id,
                              refresh_token, expires_at, now, user_agent, ip_address),
         access_token |-> issue_access_token(user, now, cfg),
         refresh_token |-> refresh_token,
         events |-> <<_log_refresh_token_event("create", "")>>]

\* Issue the access token, store a new refresh token, log its creation.
_build_successful_auth_response(toks, user, now, user_agent, ip_address, cfg) ==
    LET expires_at == now + cfg.REFRESH_TOKEN_EXPIRE_DAYS
        refresh_token == token_urlsafe(toks)
    IN  [tokens |-> add_token(toks, user.id, refresh_token, expires_at,
                              now, user_agent, ip_address),
         access_token |-> issue_access_token(user, now, cfg),
         refresh_token |-> refresh_token,
         events |-> <<_log_refresh_token_event("create", "")>>]

\* now: the day on which the call runs (every datetime.now(UTC) it makes).
authenticate_user(us, toks, email, password, now, user_agent, ip_address, cfg, fault) ==
    LET db_user == get_by_email(us, email)
    IN  IF db_user = NoRow \/ ~verify_password(password, db_user.hashed_password)
        THEN LoginFailed(InvalidCredentialsError, "Email or password incorrect.",
                         us, toks)
        ELSE
        LET upgrade == _upgrade_password_hash_if_needed(us, db_user, password, fault)
        IN  IF upgrade.raised # OK
            THEN LoginFailed(upgrade.raised, "", us, toks)
            ELSE
            LET issued == _build_successful_auth_response(toks, db_user, now,
                              user_agent, ip_address, cfg)
            IN  [raised |-> OK, msg |-> "",
                 users |-> upgrade.users,
                 tokens |-> issued.tokens,
                 access_token |-> issued.access_token,
                 refresh_token |-> issued.refresh_token,
                 events |-> issued.events]

\* What a failed rotation hands back: the exception, no tokens.
RotationFailed(exc, toks) ==
    [raised |-> exc.raised, msg |-> exc.msg, tokens |-> toks,
     access_token |-> NoToken, refresh_token |-> NONE, events |-> exc.events]

\* Variant: the owner is resolved before the old value is revoked.
_rotate_validated_lookup_first(us, toks, token_obj, old_refresh_token, now, user_agent, ip_address, cfg) ==
    LET anomalies == _detect_anomalies(token_obj, user_agent, ip_address)
        db_user == get_by_id(us, token_obj.user_id)
        revoked == revoke_token(toks, old_refresh_token)
        ev1 == anomalies.events \o <<_log_refresh_token_event("rotate", "")>>
        new_refresh_token == token_urlsafe(revoked)
    IN  IF db_user = NoRow
        THEN RotationFailed(
                 Raise(InvalidCredentialsError, "User not found",
                       anomalies.events \o <<_log_refresh_token_event("suspicious",
                                    "user not found for refresh token")>>),
                 toks)
        ELSE [raised |-> OK, msg |-> "",
              tokens |-> add_token(revoked, token_obj.user_id, new_refresh_token,
                                   new_expiry(token_obj, now, cfg), now,
                                   user_agent, ip_address),
              access_token |-> issue_access_token(db_user, now, cfg),
              refresh_token |-> new_refresh_token,
              events |-> ev1 \o <<_log_refresh_token_event("create", "")>>]

\* Variant: the new token inherits the metadata stored on the old one.
_rotate_validated_pinned(us, toks, token_obj, old_refresh_token, now, user_agent, ip_address, cfg) ==
    LET anomalies == _detect_anomalies(token_obj, user_agent, ip_address)
        revoked == revoke_token(toks, old_refresh_token)
        ev1 == anomalies.events \o <<_log_refresh_token_event("rotate", "")>>
        db_user == get_by_id(us, token_obj.user_id)
        new_refresh_token == token_urlsafe(revoked)
    IN  IF db_user = NoRow
        THEN RotationFailed(
                 Raise(InvalidCredentialsError, "User not found",
                       ev1 \o <<_log_refresh_token_event("suspicious",
                                    "user not found for refresh token")>>),
                 revoked)
        ELSE [raised |-> OK, msg |-> "",
              tokens |-> add_token(revoked, token_obj.user_id, new_refresh_token,
                                   new_expiry(token_obj, now, cfg), now,
                                   token_obj.user_agent, token_obj.ip_address),
              access_token |-> issue_access_token(db_user, now, cfg),
              refresh_token |-> new_refresh_token,
              events |-> ev1 \o <<_log_refresh_token_event("create", "")>>]

\* rotate_refresh_token from the anomaly check on, for a token_obj that passed
\* validation: revoke the old value, resolve the owner, issue the new pair.
_rotate_validated(us, toks, token_obj, old_refresh_token, now, user_agent, ip_address, cfg) ==
    LET anomalies == _detect_anomalies(token_obj, user_agent, ip_address)
    IN  IF anomalies.raised # OK
        THEN RotationFailed(anomalies, toks)
        ELSE
        LET revoked == revoke_token(toks, old_refresh_token)
            ev1 == anomalies.events \o <<_log_refresh_token_event("rotate", "")>>
            db_user == get_by_id(us, token_obj.user_id)
        IN  IF db_user = NoRow
            THEN RotationFailed(
                     Raise(InvalidCredentialsError, "User not found",
                           ev1 \o <<_log_refresh_token_event("suspicious",
                                        "user not found for refresh token")>>),
                     revoked)
            ELSE
            LET new_refresh_token == token_urlsafe(revoked)
            IN  [raised |-> OK, msg |-> "",
                 tokens |-> add_token(revoked, token_obj.user_id, new_refresh_token,
                                      new_expiry(token_obj, now, cfg), now,
                                      user_agent, ip_address),
                 access_token |-> issue_access_token(db_user, now, cfg),
                 refresh_token |-> new_refresh_token,
                 events |-> ev1 \o <<_log_refresh_token_event("create", "")>>]

\* Mutant: the token is fetched by value alone and only its expiry is checked.
rotate_refresh_token_expiry_only(us, toks, old_refresh_token, now, user_agent, ip_address, cfg) ==
    LET S == {i \in 1..Len(toks) : toks[i].token = old_refresh_token}
    IN  IF S = {} \/ toks[MinOf(S)].expires_at < now
        THEN RotationFailed(Raise(InvalidCredentialsError,
                                  "Invalid or expired refresh token", << >>), toks)
        ELSE _rotate_validated(us, toks, toks[MinOf(S)], old_refresh_token, now,
                               user_agent, ip_address, cfg)

\* Variant: the presented value is revoked before it is validated.
rotate_refresh_token_revoke_first(us, toks, old_refresh_token, now, user_agent, ip_address, cfg) ==
    LET token_obj == get_valid_token(toks, old_refresh_token)
        valid == _validate_refresh_token(token_obj, now)
    IN  IF valid.raised # OK
        THEN RotationFailed(valid, revoke_token(toks, old_refresh_token))
        ELSE _rotate_validated(us, toks, token_obj, old_refresh_token, now,
                               user_agent, ip_address, cfg)

rotate_refresh_token(us, toks, old_refresh_token, now, user_agent, ip_address, cfg) ==
    LET token_obj == get_valid_token(toks, old_refresh_token)
        valid == _validate_refresh_token(token_obj, now)
    IN  IF valid.raised # OK
        THEN RotationFailed(valid, toks)
        ELSE _rotate_validated(us, toks, token_obj, old_refresh_token, now,
                               user_agent, ip_address, cfg)

_fetch_token_or_raise_logout_error(toks, refresh_token, fault) ==
    LET token_obj == get_valid_token(toks, refresh_token)
    IN  IF fault = "get_valid_token"
        THEN Raise(LogoutOperationError, "Logout operation failed.", << >>)
        ELSE IF token_obj = NoRow
        THEN Raise(LogoutNoSessionError, "No active session or already logged out.",
                   <<_log_refresh_token_event("suspicious",
                         "invalid or revoked token used for logout")>>)
        ELSE Pass(<< >>)

\* Mutant: the owner of the token is not compared with the caller.
_validate_logout_token_owner_any(current_user, token_obj) ==
    IF token_obj.revoked
    THEN Raise(LogoutNoSessionError, "No active session or already logged out.",
               <<_log_refresh_token_event("suspicious",
                     "revoked token used for logout")>>)
    ELSE Pass(<< >>)

_validate_logout_token_owner(current_user, token_obj) ==
    IF token_obj.user_id # current_user.id
    THEN Raise(LogoutNoSessionError, "No active session or already logged out.",
               <<_log_refresh_token_event("suspicious",
                     "refresh token user mismatch on logout")>>)
    ELSE IF token_obj.revoked
    THEN Raise(LogoutNoSessionError, "No active session or already logged out.",
               <<_log_refresh_token_event("suspicious",
                     "revoked token used for logout")>>)
    ELSE Pass(<< >>)

\* Variant: the storage error of revoke_token is not translated.
_revoke_token_with_logging_raw(toks, refresh_token, fault) ==
    IF fault = "revoke_token"
    THEN [raised |-> SQLAlchemyError, msg |-> "", tokens |-> toks, events |-> << >>]
    ELSE [raised |-> OK, msg |-> "",
          tokens |-> revoke_token(toks, refresh_token),
          events |-> <<_log_refresh_token_event("revoke", "")>>]

\* A revoke_token that raises has written nothing.
_revoke_token_with_logging(toks, refresh_token, fault) ==
    IF fault = "revoke_token"
    THEN [raised |-> LogoutOperationError, msg |-> "Logout operation failed.",
          tokens |-> toks, events |-> << >>]
    ELSE [raised |-> OK, msg |-> "",
          tokens |-> revoke_token(toks, refresh_token),
          events |-> <<_log_refresh_token_event("revoke", "")>>]

logout_single_session(toks, current_user, refresh_token, fault) ==
    LET fetched == _fetch_token_or_raise_logout_error(toks, refresh_token, fault)
    IN  IF fetched.raised # OK
        THEN [raised |-> fetched.raised, msg |-> fetched.msg, tokens |-> toks,
              events |-> fetched.events]
        ELSE
        LET owner == _validate_logout_token_owner(current_user,
                                                  get_valid_token(toks, refresh_token))
        IN  IF owner.raised # OK
            THEN [raised |-> owner.raised, msg |-> owner.msg, tokens |-> toks,
                  events |-> owner.events]
            ELSE _revoke_token_with_logging(toks, refresh_token, fault)

logout_all_sessions(toks, current_user) ==
    [raised |-> OK, msg |-> "",
     tokens |-> revoke_all_tokens(toks, current_user.id),
     events |-> <<_log_refresh_token_event("revoke_all", "")>>]

\* ------------------------------------------------------------- HTTP layer
\* Response of the handler main.py registers for an application exception
\* that leaves a route.
_COOKIE_CLEAR_EXCS == {InvalidCredentialsError, LogoutOperationError, LogoutNoSessionError}

_maybe_clear_refresh_cookie(exc) == exc \in _COOKIE_CLEAR_EXCS

invalid_credentials_handler(exc) ==
    [status_code |-> 401, cookie_deleted |-> _maybe_clear_refresh_cookie(exc)]

\* Mutant: the no-session signal is answered like invalid credentials.
logout_no_session_handler_401(exc) ==
    [status_code |-> 401, cookie_deleted |-> exc \in {InvalidCredentialsError}]

logout_no_session_handler(exc) ==
    [status_code |-> 204, cookie_deleted |-> _maybe_clear_refresh_cookie(exc)]

logout_operation_error_handler(exc) ==
    [status_code |-> 204, cookie_deleted |-> _maybe_clear_refresh_cookie(exc)]

http_exception_handler(status_code) ==
    [status_code |-> status_code, cookie_deleted |-> FALSE]

unhandled_exception_handler(exc) ==
    [status_code |-> 500, cookie_deleted |-> FALSE]

\* jwt.decode and the uid check of get_current_user: the uid claim of a token
\* that carries this server's signature and has not expired on day now, or 0
\* when decoding raises JWTError.
jwt_decode(token, now) ==
    IF ~token.signed THEN 0
    ELSE IF token.exp < now THEN 0
    ELSE token.uid

\* Variant: the bearer is accepted only while the user has a session left.
get_current_user_session_bound(us, uid) ==
    IF \E i \in 1..Len(tokens) : tokens[i].user_id = uid /\ ~tokens[i].revoked
    THEN get_by_id(us, uid)
    ELSE NoRow

\* Bearer-token dependency: the uid claim of a well-signed token, or 0 for a
\* token that does not decode to an integer uid.
get_current_user(us, uid) == get_by_id(us, uid)

\* GET /me with a bearer token.
get_me(us, token, now) ==
    LET current_user == get_current_user(us, jwt_decode(token, now))
    IN  IF current_user = NoRow
        THEN [response |-> http_exception_handler(401), id |-> 0]
        ELSE [response |-> [status_code |-> 200, cookie_deleted |-> FALSE],
              id |-> current_user.id]

\* POST /logout: the route body of api/users.py followed by exception dispatch.
logout(us, toks, uid, cookie, fault) ==
    LET current_user == get_current_user(us, uid)
    IN  IF current_user = NoRow
        THEN [response |-> http_exception_handler(401), tokens |-> toks,
              raised |-> HTTPException]
        ELSE IF ~Truthy(cookie)
        THEN [response |-> [status_code |-> 204, cookie_deleted |-> TRUE],
              tokens |-> toks, raised |-> OK]
        ELSE
        LET r == logout_single_session(toks, current_user, cookie, fault)
        IN  IF r.raised \in {OK, InvalidCredentialsError, LogoutOperationError}
            THEN [response |-> [status_code |-> 204, cookie_deleted |-> TRUE],
                  tokens |-> r.tokens, raised |-> r.raised]
            ELSE IF r.raised = LogoutNoSessionError
            THEN [response |-> logout_no_session_handler(r.raised),
                  tokens |-> r.tokens, raised |-> r.raised]
            ELSE [response |-> unhandled_exception_handler(r.raised),
                  tokens |-> r.tokens, raised |-> r.raised]

\* ------------------------------------------------------------------- state
Settings ==
    [REFRESH_TOKEN_EXPIRE_DAYS : 1..MaxExpireDays,
     REFRESH_TOKEN_MAX_LIFETIME_DAYS : 1..MaxLifetimeDays,
     JWT_EXPIRE_MINUTES : {MinutesPerDay}]

\* The row holding a value, revoked or not (values are unique).
RowOf(toks, value) ==
    LET S == {i \in 1..Len(toks) : toks[i].token = value}
    IN  IF S = {} THEN NoRow ELSE toks[MinOf(S)]

\* A run is explored along one of three directions: the longest rotation
\* chains, several users, or several kinds of client metadata.
Scopes ==
    {[max_users |-> MaxUsers - 1, max_tokens |-> MaxTokens, clients |-> {NoClient}],
     [max_users |-> MaxUsers, max_tokens |-> MaxTokens - 1, clients |-> {NoClient}],
     [max_users |-> MaxUsers - 1, max_tokens |-> MaxTokens - 1, clients |-> Clients]}

IdleWorker ==
    [pc |-> "idle", old |-> NONE, client |-> NoClient,
     token_obj |-> NoRow, now |-> 0, raised |-> OK, refresh_token |-> NONE]

Init ==
    /\ settings \in Settings
    /\ scope \in Scopes
    /\ users = << >>
    /\ tokens = << >>
    /\ clock = 0
    /\ last = [op |-> "start"]
    /\ rotated = {}
    /\ chain = << >>
    /\ access_tokens = {}
    /\ workers = [w \in 1..NumWorkers |-> IdleWorker]

\* Values a service caller may present: the issued ones and an unknown one.
PresentedValues == IssuedValues \cup {"garbage"}

\* Refresh cookie of a request: absent, empty, unknown or an issued value.
Cookies == PresentedValues \cup {NONE, ""}

\* Emails a registration may use: a registered one or the next new one.
RegisterEmails == {Email(i) : i \in 1..Min2(Len(users) + 1, scope.max_users)}

\* ----------------------------------------------------------------- actions
Register ==
    \E email \in RegisterEmails, password \in Passwords :
        LET r == register_user(users, email, password)
        IN  /\ users' = r.users
            /\ last' = [op |-> "register_user", raised |-> r.raised]
            /\ UNCHANGED <<settings, scope, tokens, clock, rotated, chain, access_tokens, workers>>

\* authenticate_user; of the calls it makes, `fault` raises a storage error.
LoginWith(faults) ==
    \E email \in Emails, password \in Passwords \cup {WrongPassword},
       client \in scope.clients, fault \in faults :
        LET r == authenticate_user(users, tokens, email, password, clock,
                                   client[1], client[2], settings, fault)
            db_user == get_by_email(users, email)
        IN  /\ fault # NoFault =>
                   /\ db_user # NoRow
                   /\ verify_password(password, db_user.hashed_password)
                   /\ needs_rehash(db_user.hashed_password)
            /\ Len(r.tokens) <= scope.max_tokens
            /\ users' = r.users
            /\ tokens' = r.tokens
            /\ chain' = IF r.raised = OK THEN Append(chain, Len(r.tokens)) ELSE chain
            /\ access_tokens' = IF r.raised = OK
                                THEN access_tokens \cup {r.access_token}
                                ELSE access_tokens
            /\ last' = [op |-> "authenticate_user", email |-> email,
                        fault |-> fault, raised |-> r.raised, msg |-> r.msg,
                        refresh_token |-> r.refresh_token,
                        access_token |-> r.access_token,
                        events |-> r.events]
            /\ UNCHANGED <<settings, scope, clock, rotated, workers>>

Login == LoginWith({NoFault})

Rotate ==
    \E old \in PresentedValues, client \in scope.clients :
        LET r == rotate_refresh_token(users, tokens, old, clock,
                                      client[1], client[2], settings)
        IN  /\ Len(r.tokens) <= scope.max_tokens
            /\ tokens' = r.tokens
            /\ rotated' = IF r.raised = OK THEN rotated \cup {old} ELSE rotated
            /\ chain' = IF r.raised = OK
                        THEN Append(chain, chain[RowOf(tokens, old).id])
                        ELSE chain
            /\ access_tokens' = IF r.raised = OK
                                THEN access_tokens \cup {r.access_token}
                                ELSE access_tokens
            /\ last' = [op |-> "rotate_refresh_token", old |-> old,
                        raised |-> r.raised, msg |-> r.msg,
                        refresh_token |-> r.refresh_token,
                        access_token |-> r.access_token,
                        events |-> r.events]
            /\ UNCHANGED <<settings, scope, users, clock, workers>>

LogoutAll ==
    \E i \in 1..Len(users) :
        LET r == logout_all_sessions(tokens, users[i])
        IN  /\ tokens' = r.tokens
            /\ last' = [op |-> "logout_all_sessions", user_id |-> users[i].id,
                        raised |-> r.raised]
            /\ UNCHANGED <<settings, scope, users, clock, rotated, chain, access_tokens, workers>>

\* POST /logout; `raised` is what logout_single_session raised inside the route.
LogoutRequestWith(faults) ==
    \E uid \in {0} \cup {users[i].id : i \in 1..Len(users)},
       cookie \in Cookies, fault \in faults :
        LET r == logout(users, tokens, uid, cookie, fault)
        IN  /\ fault # NoFault =>
                   /\ get_current_user(users, uid) # NoRow
                   /\ Truthy(cookie)
                   /\ fault = "revoke_token" =>
                          logout(users, tokens, uid, cookie, NoFault).raised = OK
            /\ tokens' = r.tokens
            /\ last' = [op |-> "POST /logout", uid |-> uid, cookie |-> cookie,
                        fault |-> fault, raised |-> r.raised,
                        response |-> r.response]
            /\ UNCHANGED <<settings, scope, users, clock, rotated, chain, access_tokens, workers>>

LogoutRequest == LogoutRequestWith({NoFault})

\* A day passes.
Tick ==
    /\ clock < MaxTime
    /\ clock' = clock + 1
    /\ last' = [op |-> "tick"]
    /\ UNCHANGED <<settings, scope, users, tokens, rotated, chain, access_tokens, workers>>

Next ==
    \/ Register
    \/ Login
    \/ Rotate
    \/ LogoutAll
    \/ LogoutRequest
    \/ Tick

Spec == Init /\ [][Next]_vars

\* ------------------------------------------- concurrent rotations (workers)
\* Each worker runs one rotate_refresh_token call; every repository call of
\* the call is one committed step, and the steps of the workers interleave.

\* Lines 118-123: fetch the token, read the clock, validate, compare metadata.
RotateFetch(w) ==
    \E old \in IssuedValues, client \in scope.clients :
        LET token_obj == get_valid_token(tokens, old)
            valid == _validate_refresh_token(token_obj, clock)
        IN  /\ workers[w].pc = "idle"
            /\ workers' = [workers EXCEPT ![w] =
                   [pc |-> IF valid.raised = OK THEN "revoke" ELSE "done",
                    old |-> old, client |-> client, token_obj |-> token_obj,
                    now |-> clock, raised |-> valid.raised, refresh_token |-> NONE]]
            /\ UNCHANGED <<settings, scope, users, tokens, clock, last, rotated, chain, access_tokens>>

\* Variant: the call goes on to issue the new token without revoking the old.
RotateRevoke_skipped(w) ==
    /\ workers[w].pc = "revoke"
    /\ workers' = [workers EXCEPT ![w].pc = "issue"]
    /\ UNCHANGED <<settings, scope, users, tokens, clock, last, rotated, chain,
                   access_tokens>>

\* Line 125: revoke the old value.
RotateRevoke(w) ==
    /\ workers[w].pc = "revoke"
    /\ tokens' = revoke_token(tokens, workers[w].old)
    /\ workers' = [workers EXCEPT ![w].pc = "issue"]
    /\ UNCHANGED <<settings, scope, users, clock, last, rotated, chain, access_tokens>>

\* Lines 133-179: resolve the owner, store the new token, return the pair.
RotateIssue(w) ==
    LET me == workers[w]
        db_user == get_by_id(users, me.token_obj.user_id)
        new_refresh_token == token_urlsafe(tokens)
    IN  /\ me.pc = "issue"
        /\ IF db_user = NoRow
           THEN /\ workers' = [workers EXCEPT ![w].pc = "done",
                                              ![w].raised = InvalidCredentialsError]
                /\ UNCHANGED <<tokens, rotated, chain, access_tokens>>
           ELSE /\ Len(tokens) < scope.max_tokens
                /\ tokens' = add_token(tokens, me.token_obj.user_id, new_refresh_token,
                                       new_expiry(me.token_obj, me.now, settings), clock,
                                       me.client[1], me.client[2])
                /\ workers' = [workers EXCEPT ![w].pc = "done",
                                              ![w].refresh_token = new_refresh_token]
                /\ rotated' = rotated \cup {me.old}
                /\ chain' = Append(chain, chain[me.token_obj.id])
                /\ access_tokens' = access_tokens
                       \cup {issue_access_token(db_user, clock, settings)}
        /\ UNCHANGED <<settings, scope, users, clock, last>>

NextRace ==
    \/ Register
    \/ Login
    \/ Tick
    \/ \E w \in 1..NumWorkers : RotateFetch(w)
    \/ \E w \in 1..NumWorkers : RotateRevoke(w)
    \/ \E w \in 1..NumWorkers : RotateIssue(w)

\* Racing calls need one user and the room to store both new tokens.
InitRace ==
    /\ Init
    /\ scope.max_tokens = MaxTokens

SpecRace == InitRace /\ [][NextRace]_vars

\* -------------------------------------- sequential calls with storage errors
\* One caller at a time. A rotation runs step by step and any repository call
\* of it may raise SQLAlchemyError, which ends the call; the failing call has
\* written nothing. Login and logout run with the storage errors they handle.
Caller == 1

Idle == workers[Caller].pc = "idle"

\* The repository call the rotation was about to make raises.
RotateFail(w) ==
    /\ workers[w].pc \in {"idle", "revoke", "issue"}
    /\ \E old \in IssuedValues :
          /\ workers[w].pc # "idle" => old = workers[w].old
          /\ workers' = [workers EXCEPT ![w].pc = "done",
                                        ![w].old = old,
                                        ![w].raised = SQLAlchemyError]
    /\ UNCHANGED <<settings, scope, users, tokens, clock, last, rotated, chain,
                   access_tokens>>

\* The call is over; the caller may start the next one.
RotateReturn(w) ==
    /\ workers[w].pc = "done"
    /\ workers' = [workers EXCEPT ![w] = IdleWorker]
    /\ UNCHANGED <<settings, scope, users, tokens, clock, last, rotated, chain,
                   access_tokens>>

LoginFaulty == Idle /\ LoginWith(LoginFaults)

LogoutRequestFaulty == Idle /\ LogoutRequestWith(LogoutFaults)

NextFaults ==
    \/ Idle /\ Register
    \/ LoginFaulty
    \/ LogoutRequestFaulty
    \/ Idle /\ LogoutAll
    \/ Tick
    \/ RotateFetch(Caller)
    \/ RotateRevoke(Caller)
    \/ RotateIssue(Caller)
    \/ RotateFail(Caller)
    \/ RotateReturn(Caller)

\* An account whose stored hash predates the current hashing scheme.
LegacyUser ==
    [id |-> 1, email |-> Email(1), hashed_password |-> <<"legacy", "Password1!">>]

InitFaults ==
    /\ settings \in Settings
    /\ scope = [max_users |-> MaxUsers - 1, max_tokens |-> MaxTokens,
                clients |-> {NoClient}]
    /\ users \in {<< >>, <<LegacyUser>>}
    /\ tokens = << >>
    /\ clock = 0
    /\ last = [op |-> "start"]
    /\ rotated = {}
    /\ chain = << >>
    /\ access_tokens = {}
    /\ workers = [w \in 1..NumWorkers |-> IdleWorker]

SpecFaults == InitFaults /\ [][NextFaults]_vars

\* ------------------------------------- bearer tokens and removed user records
\* A bearer token this server never signed.
ForgedToken == [sub |-> Email(1), uid |-> 1, exp |-> MaxTime, signed |-> FALSE]

GetMe ==
    \E token \in access_tokens \cup {ForgedToken} :
        LET r == get_me(users, token, clock)
        IN  /\ last' = [op |-> "GET /me", token |-> token, response |-> r.response,
                        id |-> r.id]
            /\ UNCHANGED <<settings, scope, users, tokens, clock, rotated, chain,
                           access_tokens, workers>>

\* A user row is removed from the users table by an administrator, outside
\* the session code; the rows of refresh_tokens are left as they are.
DeleteUser ==
    /\ tokens # << >>
    /\ \E i \in 1..Len(users) :
          /\ users' = [j \in 1..(Len(users) - 1) |->
                           IF j < i THEN users[j] ELSE users[j + 1]]
          /\ last' = [op |-> "delete user", user_id |-> users[i].id]
    /\ UNCHANGED <<settings, scope, tokens, clock, rotated, chain, access_tokens,
                   workers>>

\* Accounts are registered before the first login, so that no id is handed
\* out a second time after a removal.
RegisterEarly == tokens = << >> /\ Register

NextAccess ==
    \/ RegisterEarly
    \/ Login
    \/ Rotate
    \/ LogoutAll
    \/ LogoutRequest
    \/ Tick
    \/ DeleteUser
    \/ GetMe

InitAccess ==
    /\ Init
    /\ scope.max_users = MaxUsers

SpecAccess == InitAccess /\ [][NextAccess]_vars

\* ------------------------------------------------------- shared vocabulary
Newest(toks) == toks[Len(toks)]

ExpireDays == settings.REFRESH_TOKEN_EXPIRE_DAYS
MaxLifetime == settings.REFRESH_TOKEN_MAX_LIFETIME_DAYS

IsRotate(l) == l.op = "rotate_refresh_token"
IsLogoutRequest(l) == l.op = "POST /logout"
IsLogoutAll(l) == l.op = "logout_all_sessions"

NoContentCleared == [status_code |-> 204, cookie_deleted |-> TRUE]

\* --------------------------------------------------------------------- C1
\* C1: once rotate_refresh_token(v) has returned a new pair, every later
\* rotate_refresh_token(v) raises InvalidCredentialsError and the store keeps
\* exactly the rows it had.
C1_SingleUseRotation ==
    [][(IsRotate(last') /\ last'.old \in rotated)
         => (last'.raised = InvalidCredentialsError /\ tokens' = tokens)]_vars

\* A value that was rotated successfully has been presented again and refused.
C1_Witness ==
    /\ IsRotate(last)
    /\ last.old \in rotated
    /\ last.raised = InvalidCredentialsError

\* --------------------------------------------------------------------- C2
\* C2: with the window no longer than the cap, every token of a session
\* expires no later than REFRESH_TOKEN_MAX_LIFETIME_DAYS after the creation
\* of the login token the session started with.
C2_AbsoluteSessionCap ==
    ExpireDays <= MaxLifetime =>
        \A i \in 1..Len(tokens) :
            tokens[i].expires_at <= tokens[chain[i]].created_at + MaxLifetime

\* --------------------------------------------------------------------- C3
\* C3: of two concurrent rotate_refresh_token calls on the same old value at
\* most one returns a new pair.
C3_RacingRotations ==
    \A w1, w2 \in 1..NumWorkers :
        (/\ w1 # w2
         /\ workers[w1].pc = "done" /\ workers[w2].pc = "done"
         /\ workers[w1].old = workers[w2].old)
        => ~(workers[w1].raised = OK /\ workers[w2].raised = OK)

\* --------------------------------------------------------------------- C4
\* C4: a value whose row is revoked is refused by rotate_refresh_token with
\* InvalidCredentialsError and by the logout of an authenticated user with
\* LogoutNoSessionError, whatever its expiry, and the store is not written.
C4_RevokedNeverAccepted ==
    [][/\ (IsRotate(last') /\ RowOf(tokens, last'.old) # NoRow
           /\ RowOf(tokens, last'.old).revoked)
          => (last'.raised = InvalidCredentialsError /\ tokens' = tokens)
       /\ (IsLogoutRequest(last') /\ last'.uid # 0 /\ Truthy(last'.cookie)
           /\ RowOf(tokens, last'.cookie) # NoRow
           /\ RowOf(tokens, last'.cookie).revoked)
          => (last'.raised = LogoutNoSessionError /\ tokens' = tokens)]_vars

\* A token revoked by a logout, not yet expired, was presented for rotation.
C4_Witness ==
    /\ IsRotate(last)
    /\ last.old \notin rotated
    /\ RowOf(tokens, last.old) # NoRow
    /\ RowOf(tokens, last.old).revoked
    /\ RowOf(tokens, last.old).expires_at >= clock
    /\ last.raised = InvalidCredentialsError

\* --------------------------------------------------------------------- C5
\* C5: a row that is revoked stays in the store and stays revoked in every
\* later state.
C5_RevocationMonotonic ==
    [][\A i \in 1..Len(tokens) :
          tokens[i].revoked => (i <= Len(tokens') /\ tokens'[i].revoked)]_vars

\* A login has added a row after another row was revoked.
C5_Witness ==
    /\ last.op = "authenticate_user"
    /\ last.raised = OK
    /\ \E i \in 1..Len(tokens) : tokens[i].revoked

NoUsableSession(toks, uid, cookie) ==
    \/ ~Truthy(cookie)
    \/ RowOf(toks, cookie) = NoRow
    \/ RowOf(toks, cookie).revoked
    \/ RowOf(toks, cookie).user_id # uid

Validity(toks) == [i \in 1..Len(toks) |-> <<toks[i].revoked, toks[i].expires_at>>]

\* C9: in every state, two rotations of the same value that differ only in
\* the user agent and ip address supplied both succeed or both raise
\* InvalidCredentialsError, and leave the same revoked flags and expiry times.
C9_AnomalyNeverBlocks ==
    \A old \in PresentedValues, c1 \in Clients, c2 \in Clients :
        LET r1 == rotate_refresh_token(users, tokens, old, clock, c1[1], c1[2], settings)
            r2 == rotate_refresh_token(users, tokens, old, clock, c2[1], c2[2], settings)
        IN  /\ r1.raised = r2.raised
            /\ r1.raised \in {OK, InvalidCredentialsError}
            /\ Validity(r1.tokens) = Validity(r2.tokens)

\* A rotation has succeeded although both the user agent and the ip address
\* differ from the non-empty ones stored on the rotated token.
C9_Witness ==
    /\ IsRotate(last)
    /\ last.raised = OK
    /\ Truthy(RowOf(tokens, last.old).user_agent)
    /\ Truthy(Newest(tokens).user_agent)
    /\ RowOf(tokens, last.old).user_agent # Newest(tokens).user_agent
    /\ RowOf(tokens, last.old).ip_address # Newest(tokens).ip_address

\* -------------------------------------------------------------------- C10
\* C10: a successful rotation on day now of token t adds one row whose
\* expires_at is the smaller of now + REFRESH_TOKEN_EXPIRE_DAYS and
\* t.created_at + REFRESH_TOKEN_MAX_LIFETIME_DAYS.
C10_RotationExpiry ==
    [][(IsRotate(last') /\ last'.raised = OK)
       => LET t == RowOf(tokens, last'.old)
              window == clock + ExpireDays
              cap == t.created_at + MaxLifetime
          IN  /\ Len(tokens') = Len(tokens) + 1
              /\ Newest(tokens').token = last'.refresh_token
              /\ Newest(tokens').expires_at <= cap
              /\ Newest(tokens').expires_at <= window
              /\ Newest(tokens').expires_at \in {window, cap}
              /\ (window <= cap => Newest(tokens').expires_at = window)]_vars

\* A rotation has been cut short by the cap: the new token expires earlier
\* than a full window after the rotation.
C10_Witness ==
    /\ IsRotate(last)
    /\ last.raised = OK
    /\ ExpireDays <= MaxLifetime
    /\ Newest(tokens).expires_at < Newest(tokens).created_at + ExpireDays
    /\ Newest(tokens).expires_at = RowOf(tokens, last.old).created_at + MaxLifetime

\* -------------------------------------------------------------------- C11
\* The tokens of the session begun by login token c that are not revoked.
Live(c) == {i \in 1..Len(tokens) : chain[i] = c /\ ~tokens[i].revoked}

\* C11: in every state of sequentially executed calls, the states inside a
\* rotation and those left by a storage error at any of its steps included,
\* each session has at most one token that is not revoked.
C11_OneValidTokenPerSession ==
    \A c \in 1..Len(tokens) : Cardinality(Live(c)) <= 1

\* A rotation of a rotated-in token was aborted by a storage error after it
\* had revoked the old token: the session is left without a valid token.
C11_Witness ==
    /\ workers[Caller].pc = "done"
    /\ workers[Caller].raised = SQLAlchemyError
    /\ workers[Caller].token_obj # NoRow
    /\ RowOf(tokens, workers[Caller].old).revoked
    /\ workers[Caller].old \notin rotated
    /\ chain[workers[Caller].token_obj.id] # workers[Caller].token_obj.id
    /\ Live(chain[workers[Caller].token_obj.id]) = {}

\* -------------------------------------------------------------------- C12
KnownEmails == {e \in Emails : get_by_email(users, e) # NoRow}

\* C12: in every state, a login with an unknown email and a login with a
\* known email and a wrong password raise InvalidCredentialsError with the
\* same message, return no token and leave users and tokens as they were.
C12_UniformLoginFailure ==
    \A e1 \in Emails \ KnownEmails, e2 \in KnownEmails, client \in Clients :
        LET r1 == authenticate_user(users, tokens, e1, "Password1!", clock,
                                    client[1], client[2], settings, NoFault)
            r2 == authenticate_user(users, tokens, e2, WrongPassword, clock,
                                    client[1], client[2], settings, NoFault)
        IN  /\ r1.raised = InvalidCredentialsError
            /\ r2.raised = InvalidCredentialsError
            /\ r1.msg = r2.msg
            /\ r1.refresh_token = NONE /\ r2.refresh_token = NONE
            /\ r1.tokens = tokens /\ r2.tokens = tokens
            /\ r1.users = users /\ r2.users = users

\* A login with a known email was refused while another email is unknown and
\* a session exists.
C12_Witness ==
    /\ last.op = "authenticate_user"
    /\ last.raised = InvalidCredentialsError
    /\ last.email \in KnownEmails
    /\ Emails \ KnownEmails # {}
    /\ Len(tokens) >= 1

\* -------------------------------------------------------------------- C13
\* C13: a successful login on day now adds exactly one row, owned by the user
\* of that email, not revoked, expiring at now + REFRESH_TOKEN_EXPIRE_DAYS and
\* holding the value returned; every row that existed stays as it was.
C13_LoginEffect ==
    [][(last'.op = "authenticate_user" /\ last'.raised = OK)
       => (/\ Len(tokens') = Len(tokens) + 1
           /\ SubSeq(tokens', 1, Len(tokens)) = tokens
           /\ Newest(tokens').user_id = get_by_email(users, last'.email).id
           /\ ~Newest(tokens').revoked
           /\ Newest(tokens').expires_at = clock + ExpireDays
           /\ Newest(tokens').token = last'.refresh_token)]_vars

\* A user has logged in while an earlier session of theirs is still valid:
\* two tokens of one user, neither revoked nor expired.
C13_Witness ==
    /\ last.op = "authenticate_user"
    /\ last.raised = OK
    /\ \E i \in 1..(Len(tokens) - 1) :
          /\ tokens[i].user_id = Newest(tokens).user_id
          /\ ~tokens[i].revoked
          /\ tokens[i].expires_at >= clock

\* -------------------------------------------------------------------- C14
\* A row with this value exists, is not revoked and has not expired before now.
Presentable(toks, value, now) ==
    /\ RowOf(toks, value) # NoRow
    /\ ~RowOf(toks, value).revoked
    /\ RowOf(toks, value).expires_at >= now

\* C14: a rotation is refused with InvalidCredentialsError and the message
\* "Invalid or expired refresh token" exactly when no row has the value, the
\* row is revoked or its expires_at is before now; a token presented on the
\* day it expires is accepted.
C14_ValidityPredicate ==
    [][IsRotate(last')
       => (/\ Presentable(tokens, last'.old, clock) <=> last'.raised = OK
           /\ ~Presentable(tokens, last'.old, clock)
                 => (/\ last'.raised = InvalidCredentialsError
                     /\ last'.msg = "Invalid or expired refresh token"))]_vars

\* A token has been rotated on the very day it expires.
C14_Witness ==
    /\ IsRotate(last)
    /\ last.raised = OK
    /\ RowOf(tokens, last.old).expires_at = clock

C16_LogoutStorageFailure ==
    [][(IsLogoutRequest(last') /\ last'.fault # NoFault /\ UNCHANGED workers)
       => (/\ last'.raised = LogoutOperationError
           /\ last'.response = NoContentCleared
           /\ last'.fault = "get_valid_token" => tokens' = tokens)]_vars

\* The revocation of the caller's own valid token has failed in the store and
\* the logout was answered all the same.
C16_Witness ==
    /\ IsLogoutRequest(last)
    /\ last.fault = "revoke_token"
    /\ RowOf(tokens, last.cookie).user_id = last.uid
    /\ last.response = NoContentCleared

\* -------------------------------------------------------------------- C17
\* C17: in a step that is a login (no rotation step, which moves a worker),
\* when update_password raises a storage error and the credentials are valid, the login returns an access token and a refresh token and
\* leaves exactly the tokens a login without the upgrade attempt leaves: one
\* new row.
C17_HashUpgradeBestEffort ==
    [][(/\ last'.op = "authenticate_user" /\ last'.fault = "update_password"
        /\ UNCHANGED workers)
       => LET plain == authenticate_user(users, tokens, last'.email, "Password1!",
                           clock, Newest(tokens').user_agent,
                           Newest(tokens').ip_address, settings, NoFault)
          IN  /\ last'.raised = OK
              /\ last'.refresh_token # NONE
              /\ last'.access_token.signed
              /\ last'.access_token.uid = get_by_email(users, last'.email).id
              /\ users' = users
              /\ Len(tokens') = Len(tokens) + 1
              /\ Newest(tokens').token = last'.refresh_token
              /\ tokens' = plain.tokens
              /\ last'.access_token = plain.access_token
              /\ last'.refresh_token = plain.refresh_token]_vars

\* A login of an account with an outdated hash has succeeded although the
\* new hash could not be stored.
C17_Witness ==
    /\ last.op = "authenticate_user"
    /\ last.fault = "update_password"
    /\ last.raised = OK
    /\ needs_rehash(get_by_email(users, last.email).hashed_password)

\* -------------------------------------------------------------------- C18
\* No two rows hold the same value.
Distinct(toks) ==
    \A i, j \in 1..Len(toks) : toks[i].token = toks[j].token => i = j

C19_AccessTokenUnrevocable ==
    [][(last'.op = "GET /me" /\ last'.token \in access_tokens)
       => (last'.response.status_code = 200
           <=> (/\ clock <= last'.token.exp
                /\ \E i \in 1..Len(users) : users[i].id = last'.token.uid))]_vars

\* GET /me was answered 200 for a user whose refresh tokens, two of them,
\* have all been revoked.
C19_Witness ==
    /\ last.op = "GET /me"
    /\ last.response.status_code = 200
    /\ last.id = last.token.uid
    /\ Cardinality({i \in 1..Len(tokens) : tokens[i].user_id = last.id}) >= 2
    /\ \A i \in 1..Len(tokens) : tokens[i].user_id = last.id => tokens[i].revoked

\* -------------------------------------------------------------------- C20
\* Number of "anomaly" audit events about one field among the events of a call.
AnomalyCount(events, field) ==
    Cardinality({k \in 1..Len(events) :
        events[k].event_type = "anomaly" /\ events[k].reason = field})

\* C20 as claimed: a successful rotation emits one anomaly event for a field
\* when the supplied value differs from a non-empty stored one, and none
\* otherwise. The supplied metadata is what the new row stores.
C20_AnomalyEventsAsClaimed ==
    [][(IsRotate(last') /\ last'.raised = OK)
       => LET t == RowOf(tokens, last'.old)
              n == Newest(tokens')
          IN  /\ AnomalyCount(last'.events, "user_agent")
                   = (IF Truthy(t.user_agent) /\ n.user_agent # t.user_agent
                      THEN 1 ELSE 0)
              /\ AnomalyCount(last'.events, "ip_address")
                   = (IF Truthy(t.ip_address) /\ n.ip_address # t.ip_address
                      THEN 1 ELSE 0)]_vars

\* C20: a successful rotation emits one anomaly event for a field when the
\* supplied value is non-empty and differs from a non-empty stored one, and
\* none when the values are equal or either of them is empty.
C20_AnomalyEvents ==
    [][(IsRotate(last') /\ last'.raised = OK)
       => LET t == RowOf(tokens, last'.old)
              n == Newest(tokens')
          IN  /\ AnomalyCount(last'.events, "user_agent")
                   = (IF Truthy(n.user_agent) /\ Truthy(t.user_agent)
                         /\ n.user_agent # t.user_agent
                      THEN 1 ELSE 0)
              /\ AnomalyCount(last'.events, "ip_address")
                   = (IF Truthy(n.ip_address) /\ Truthy(t.ip_address)
                         /\ n.ip_address # t.ip_address
                      THEN 1 ELSE 0)]_vars

\* A rotation kept the user agent and changed the ip address: one anomaly
\* event, about the ip address.
C20_Witness ==
    /\ IsRotate(last)
    /\ last.raised = OK
    /\ Truthy(RowOf(tokens, last.old).user_agent)
    /\ RowOf(tokens, last.old).user_agent = Newest(tokens).user_agent
    /\ AnomalyCount(last.events, "user_agent") = 0
    /\ AnomalyCount(last.events, "ip_address") = 1

\* -------------------------------------------------------------------- C21
\* The events of a call hold a "suspicious" audit event with this reason.
Audited(events, reason) ==
    \E k \in 1..Len(events) :
        events[k].event_type = "suspicious" /\ events[k].reason = reason

\* C21: every InvalidCredentialsError raised by authenticate_user or
\* rotate_refresh_token comes with an audit event of the same call that names
\* the reason: missing or revoked, expired or ownerless token at rotation,
\* bad credentials at login.
C21_AuditPairing ==
    [][/\ (IsRotate(last') /\ last'.raised = InvalidCredentialsError)
          => LET t == RowOf(tokens, last'.old)
             IN  IF t = NoRow \/ t.revoked
                 THEN Audited(last'.events,
                              "invalid or revoked token used for rotation")
                 ELSE IF t.expires_at < clock
                 THEN Audited(last'.events, "expired token used for rotation")
                 ELSE Audited(last'.events, "user not found for refresh token")
       /\ (last'.op = "authenticate_user"
           /\ last'.raised = InvalidCredentialsError)
          => \E k \in 1..Len(last'.events) :
                 last'.events[k].event_type = "suspicious"]_vars

\* -------------------------------------------------------------------- C22
\* C22: in every state, a rotation that succeeds stores on the new row
\* exactly the user agent and ip address supplied to it, empty ones included,
\* whatever the rotated row holds.
C22_MetadataMovesForward ==
    \A old \in IssuedValues, client \in Clients \cup {<<"", "">>} :
        LET r == rotate_refresh_token(users, tokens, old, clock,
                                      client[1], client[2], settings)
        IN  r.raised = OK
            => (/\ Newest(r.tokens).token = r.refresh_token
                /\ Newest(r.tokens).user_agent = client[1]
                /\ Newest(r.tokens).ip_address = client[2])

\* A token that stores a user agent and an ip address was rotated by a call
\* that supplied none, and the new token stores none.
C22_Witness ==
    /\ IsRotate(last)
    /\ last.raised = OK
    /\ Truthy(RowOf(tokens, last.old).user_agent)
    /\ Truthy(RowOf(tokens, last.old).ip_address)
    /\ Newest(tokens).user_agent = NONE
    /\ Newest(tokens).ip_address = NONE

\* -------------------------------------------------------------------- C23
\* C23: no step removes a row, and a row that exists either stays as it is
\* or differs only in revoked having become true.
C23_AppendOnly ==
    [][/\ Len(tokens') >= Len(tokens)
       /\ \A i \in 1..Len(tokens) :
             \/ tokens'[i] = tokens[i]
             \/ /\ ~tokens[i].revoked
                /\ tokens'[i] = [tokens[i] EXCEPT !.revoked = TRUE]]_vars

\* A rotation has revoked one row and added another while a third row,
\* revoked earlier, kept its place.
C23_Witness ==
    /\ IsRotate(last)
    /\ last.raised = OK
    /\ \E i \in 1..Len(tokens) :
          /\ tokens[i].revoked
          /\ tokens[i].token # last.old
          /\ tokens[i].expires_at > 0

\* -------------------------------------------------------------------- C24
\* The store after the row holding value v has been revoked, nothing else.
RevokedOnly(toks, v) ==
    [i \in 1..Len(toks) |->
        IF toks[i].token = v THEN [toks[i] EXCEPT !.revoked = TRUE] ELSE toks[i]]

\* C24: a logout in which logout_single_session(user, v) returns normally
\* revokes the row with value v and leaves every other row as it was.
C24_SingleLogoutRevokesOne ==
    [][(/\ IsLogoutRequest(last') /\ last'.uid # 0 /\ Truthy(last'.cookie)
        /\ last'.raised = OK)
       => (/\ RowOf(tokens, last'.cookie) # NoRow
           /\ RowOf(tokens', last'.cookie).revoked
           /\ tokens' = RevokedOnly(tokens, last'.cookie))]_vars

\* A user has logged out of one session while another session of theirs
\* remains valid.
C24_Witness ==
    /\ IsLogoutRequest(last)
    /\ last.uid # 0
    /\ Truthy(last.cookie)
    /\ last.raised = OK
    /\ \E i \in 1..Len(tokens) :
          /\ tokens[i].user_id = last.uid
          /\ tokens[i].token # last.cookie
          /\ ~tokens[i].revoked
          /\ tokens[i].expires_at >= clock

\* -------------------------------------------------------------------- C25
\* C25: in every state, get_valid_token(v) returns the row holding v exactly
\* when such a row exists and is not revoked, be it expired or not, and
\* nothing otherwise.
C25_GetValidToken ==
    \A v \in PresentedValues :
        LET t == RowOf(tokens, v)
        IN  get_valid_token(tokens, v) = (IF t # NoRow /\ ~t.revoked THEN t ELSE NoRow)

\* A rotation was refused as expired: get_valid_token had returned a row that
\* is not revoked and whose expiry has passed, and still returns it.
C25_Witness ==
    /\ IsRotate(last)
    /\ Audited(last.events, "expired token used for rotation")
    /\ get_valid_token(tokens, last.old) # NoRow
    /\ get_valid_token(tokens, last.old).expires_at < clock

\* -------------------------------------------------------------------- C26
\* C26: in every state, revoke_token(v) changes nothing when no row that is
\* not revoked holds v, and applying it twice leaves what applying it once
\* leaves.
C26_RevokeTokenIdempotent ==
    \A v \in PresentedValues :
        /\ get_valid_token(tokens, v) = NoRow => revoke_token(tokens, v) = tokens
        /\ revoke_token(revoke_token(tokens, v), v) = revoke_token(tokens, v)
        /\ RowOf(tokens, v) # NoRow => RowOf(revoke_token(tokens, v), v).revoked

\* Both cases at once: a rotation has revoked its token, so revoking that
\* value again finds no row, and an unknown value finds none either, while
\* another token is still there to be revoked.
C26_Witness ==
    /\ IsRotate(last)
    /\ last.raised = OK
    /\ RowOf(tokens, last.old).revoked
    /\ revoke_token(tokens, last.old) = tokens
    /\ revoke_token(tokens, "garbage") = tokens
    /\ revoke_token(tokens, last.refresh_token) # tokens

\* -------------------------------------------------------------------- C27
\* C27: logout_all_sessions(user) adds and removes no row and leaves every
\* row of another user as it was.
C27_LogoutAllFrame ==
    [][IsLogoutAll(last')
       => (/\ Len(tokens') = Len(tokens)
           /\ \A i \in 1..Len(tokens) :
                 tokens[i].user_id # last'.user_id => tokens'[i] = tokens[i])]_vars

\* A user has ended all their sessions while a session of another user is
\* still valid.
C27_Witness ==
    /\ IsLogoutAll(last)
    /\ \E i, j \in 1..Len(tokens) :
          /\ tokens[i].user_id = last.user_id
          /\ tokens[i].revoked
          /\ tokens[j].user_id # last.user_id
          /\ ~tokens[j].revoked
          /\ tokens[j].expires_at >= clock

\* -------------------------------------------------------------------- C28
\* C28: a rotation of a value that is unknown, revoked or expired leaves
\* every row as it was; an expired token that was not revoked is still not
\* revoked, and a logout of that session by its owner, or the owner's logout
\* everywhere, then revokes it.
C28_FailedRotationFrame ==
    [][(IsRotate(last') /\ ~Presentable(tokens, last'.old, clock))
       => (/\ last'.raised = InvalidCredentialsError
           /\ tokens' = tokens
           /\ LET t == RowOf(tokens', last'.old)
              IN  (t # NoRow /\ ~RowOf(tokens, last'.old).revoked)
                  => LET owner == get_by_id(users', t.user_id)
                         single == logout_single_session(tokens', owner,
                                                         last'.old, NoFault)
                         all == logout_all_sessions(tokens', owner)
                     IN  /\ ~t.revoked
                         /\ owner # NoRow
                         /\ single.raised = OK
                         /\ RowOf(single.tokens, last'.old).revoked
                         /\ all.raised = OK
                         /\ RowOf(all.tokens, last'.old).revoked)]_vars

\* The rotation of an expired token has been refused and the token is still
\* not revoked.
C28_Witness ==
    /\ IsRotate(last)
    /\ last.raised = InvalidCredentialsError
    /\ RowOf(tokens, last.old) # NoRow
    /\ ~RowOf(tokens, last.old).revoked
    /\ RowOf(tokens, last.old).expires_at < clock

\* -------------------------------------------------------------------- C29
\* C29: when REFRESH_TOKEN_EXPIRE_DAYS <= REFRESH_TOKEN_MAX_LIFETIME_DAYS,
\* every row, issued by a login or by a rotation, expires no later than max
\* lifetime after its own created_at.
C29_PerTokenLifetime ==
    ExpireDays <= MaxLifetime
        => \A i \in 1..Len(tokens) :
               tokens[i].expires_at <= tokens[i].created_at + MaxLifetime

\* With the window no longer than the lifetime, a token issued by a login
\* was rotated on a later day.
C29_Witness ==
    /\ ExpireDays <= MaxLifetime
    /\ IsRotate(last)
    /\ last.raised = OK
    /\ Newest(tokens).created_at > RowOf(tokens, last.old).created_at
    /\ Len(tokens) = 2

\* -------------------------------------------------------------------- C30
\* C30: when REFRESH_TOKEN_EXPIRE_DAYS <= REFRESH_TOKEN_MAX_LIFETIME_DAYS,
\* the token a successful rotation issues at time now expires at now or
\* later, and a rotation of it at that same instant succeeds.
C30_NeverIssuedExpired ==
    [][(IsRotate(last') /\ last'.raised = OK /\ ExpireDays <= MaxLifetime)
       => (/\ Newest(tokens').token = last'.refresh_token
           /\ Newest(tokens').expires_at >= clock
           /\ rotate_refresh_token(users', tokens', last'.refresh_token, clock',
                                   NONE, NONE, settings').raised = OK)]_vars

\* The boundary: the cap has cut the new token's expiry down to the instant
\* of the rotation itself.
C30_Witness ==
    /\ ExpireDays <= MaxLifetime
    /\ IsRotate(last)
    /\ last.raised = OK
    /\ Newest(tokens).token = last.refresh_token
    /\ Newest(tokens).expires_at = clock
    /\ Newest(tokens).created_at = clock

====
